---- MODULE Spec2Model ----
(***************************************************************************)
(* A model of the keepassfunctions demo programs: demo.py (argument        *)
(* resolver, single-shot handlers, interactive loop, input-method          *)
(* comparison) and demo_minimalistic.py.  The KeePassFunctions class is an *)
(* external collaborator: every call into it is modelled by the set of     *)
(* outcomes it can have (a value, ValueError, another Exception, or the    *)
(* user's KeyboardInterrupt while it blocks).                              *)
(*                                                                         *)
(* Text values (titles, search terms, passwords, paths) are sequences of   *)
(* one-character strings, so that strip(), len() and '*' * n are computed. *)
(***************************************************************************)
EXTENDS Integers, Sequences, FiniteSets, TLC

\* ------------------------------------------------------------------ bounds
MaxChoices == 2      \* menu inputs read by the interactive loop in one run
MaxPwLen == 2        \* longest password the collaborator returns
MaxListLen == 3      \* longest result list the collaborator's search returns

\* ------------------------------------------------------------ Python values
NoneV == <<"<None>">>        \* Python's None (no text value has this shape)
Unset == <<"<unset>">>       \* a local that has not been assigned

Truthy(x) == x # NoneV /\ x # <<>>      \* bool(x) of a str-or-None

Whitespace == {" ", "\t"}

RECURSIVE LStrip(_)
LStrip(s) == IF s # <<>> /\ Head(s) \in Whitespace THEN LStrip(Tail(s)) ELSE s

RECURSIVE RStrip(_)
RStrip(s) ==
    IF s # <<>> /\ s[Len(s)] \in Whitespace
    THEN RStrip(SubSeq(s, 1, Len(s) - 1))
    ELSE s

\* A variant of Strip that returns the text as typed.
StripNothing(s) == s

\* str.strip()
Strip(s) == RStrip(LStrip(s))

\* '*' * n
Stars(n) == [i \in 1..n |-> "*"]

NA == <<"N", "/", "A">>

\* A variant of MaskPassword that masks with a fixed width.
MaskPasswordFixedWidth(password) == IF Truthy(password) THEN Stars(1) ELSE NA

\* '*' * len(password) if password else 'N/A'
MaskPassword(password) == IF Truthy(password) THEN Stars(Len(password)) ELSE NA

\* The dict built by {entry.uuid: entry for entry in entries}, as the sequence
\* of its values in key-insertion order: a repeated key keeps its position and
\* takes the later value.
RECURSIVE DictPut(_, _)
DictPut(d, e) ==
    IF d = <<>> THEN <<e>>
    ELSE IF Head(d).uuid = e.uuid THEN <<e>> \o Tail(d)
    ELSE <<Head(d)>> \o DictPut(Tail(d), e)

RECURSIVE DictOf(_)
DictOf(entries) ==
    IF entries = <<>> THEN <<>>
    ELSE DictPut(DictOf(SubSeq(entries, 1, Len(entries) - 1)), entries[Len(entries)])

\* A variant of UniqueEntries that keeps every entry.
UniqueEntriesKeepAll(entries) == entries

\* list({entry.uuid: entry for entry in entries}.values())
UniqueEntries(entries) == DictOf(entries)

\* ------------------------------------------------------------------- state
VARIABLES
    entry,       \* which code runs: "demo" (demo.py as a script), "minimal"
                 \* (demo_minimalistic.py), "handler" (a handler called directly)
    pc,          \* position in the code
    args,        \* the parsed command line (argparse's Namespace)
    with_gui,    \* the input-method selector handed to KeePassFunctions
    handler,     \* the single-shot handler that is running, or "none"
    target,      \* the handler's entry_title / search_term
    caller,      \* who called the handler: "main", "direct" or "none"
    ret,         \* who called gui_comparison_demo: "loop", "script" or "none"
    sessions,    \* the open database sessions, innermost last
    opened,      \* sessions opened so far
    released,    \* sessions released so far
    out,         \* what has been printed, as [tag, text] records
    exit_code,   \* <<>> while running, <<status>> once the process has exited
    calls,       \* the lookup / autotype / search calls made on the collaborator
    loopState,   \* the interactive loop: "none", "menu", "dispatching", "done", "aborted"
    inputs,      \* the menu choices read so far
    choice,      \* the menu choice being dispatched
    title,       \* the stripped text read by the current prompt
    secret,      \* the password the collaborator returned to the last lookup
    entries,     \* <<the list the collaborator's search returned>>, <<>> before
    listing,     \* <<the count and the rows the search handler printed>>, or <<>>
    cmp          \* what the current run of gui_comparison_demo has done

vars == <<entry, pc, args, with_gui, handler, target, caller, ret, sessions, opened,
          released, out, exit_code, calls, loopState, inputs, choice, title, secret,
          entries, listing, cmp>>

frame == <<entry, args, with_gui, handler, target, caller>>
loopVars == <<loopState, inputs, choice, title>>
searchVars == <<entries, listing>>
sessVars == <<sessions, opened, released>>

\* ------------------------------------------------------------------ inputs
Dbs == {NoneV, <<>>, <<"x">>}
EntryArgs == {NoneV, <<>>, <<" ">>, <<"S">>}
SearchArgs == {NoneV, <<>>, <<"q">>}

\* The Namespace of a command line with no flags at all.
NoArgs ==
    [db |-> NoneV, gui |-> FALSE, entry |-> NoneV, search |-> NoneV,
     get_credentials |-> FALSE, get_full_entry |-> FALSE, autotype |-> FALSE,
     interactive |-> FALSE, verbose |-> FALSE, compare |-> FALSE]

\* sys.argv == [prog, '--compare']
CompareArgv == [NoArgs EXCEPT !.compare = TRUE]

\* The command lines argparse accepts, and the lone --compare.
Argvs ==
    [db : Dbs, gui : BOOLEAN, entry : EntryArgs, search : SearchArgs,
     get_credentials : BOOLEAN, get_full_entry : BOOLEAN, autotype : BOOLEAN,
     interactive : BOOLEAN, verbose : BOOLEAN, compare : {FALSE}]
    \cup {CompareArgv}

\* What the user can type at a prompt, before strip().
RawInputs == {<<>>, <<" ">>, <<"S">>, <<" ", "S", "\t">>}

\* What the user can type at the menu, after strip().
MenuInputs == {"1", "2", "3", "4", "5", "6", "9", ""}

Handlers == {"get_credentials", "get_full_entry", "autotype", "search"}

\* The exceptions a collaborator call can raise, besides the user's interrupt.
Failures == {"ValueError", "Exception"}

PwChars == {"p", "*"}

RECURSIVE TextsUpTo(_, _)
TextsUpTo(chars, n) ==
    IF n = 0 THEN {<<>>}
    ELSE LET shorter == TextsUpTo(chars, n - 1)
         IN  shorter \cup {Append(t, c) : t \in shorter, c \in chars}

\* The passwords a lookup can return: None, '' or a text of up to MaxPwLen.
Passwords == {NoneV} \cup TextsUpTo(PwChars, MaxPwLen)

Uuids == {"u1", "u2"}
Titles == {"a", "b"}
Entries == [uuid : Uuids, title : Titles]

RECURSIVE ListsUpTo(_, _)
ListsUpTo(S, n) ==
    IF n = 0 THEN {<<>>}
    ELSE LET shorter == ListsUpTo(S, n - 1)
         IN  shorter \cup {Append(t, c) : t \in shorter, c \in S}

\* The lists the collaborator's search can return.
ResultLists == ListsUpTo(Entries, MaxListLen)

\* The status of a process that ends on an uncaught KeyboardInterrupt: 1
\* where the interpreter reports it like any other exception, 130 where it
\* re-raises SIGINT.  Never 0.
InterruptStatuses == {1, 130}

Msg(tag) == [tag |-> tag, text |-> <<>>]
MsgText(tag, text) == [tag |-> tag, text |-> text]

NoCmp == [console_opened |-> FALSE, console_counted |-> FALSE,
          console_ok |-> FALSE, console_failed |-> FALSE,
          gui_attempted |-> FALSE, gui_failed |-> FALSE]

\* The first statement of each single-shot handler.
HandlerStart(h) == IF h = "autotype" THEN "at_countdown" ELSE "h_open"

Init ==
    /\ entry \in {"demo", "minimal", "handler"}
    /\ args \in (IF entry = "demo" THEN Argvs ELSE {NoArgs})
    /\ handler \in (IF entry = "handler" THEN Handlers ELSE {"none"})
    /\ target \in (IF entry = "handler" THEN RawInputs ELSE {Unset})
    /\ with_gui \in (IF entry = "handler" THEN BOOLEAN ELSE {FALSE})
    /\ caller = (IF entry = "handler" THEN "direct" ELSE "none")
    /\ pc = (CASE entry = "demo" -> "start"
               [] entry = "minimal" -> "min1_open"
               [] entry = "handler" -> HandlerStart(handler))
    /\ ret = "none"
    /\ sessions = <<>>
    /\ opened = 0
    /\ released = 0
    /\ out = <<>>
    /\ exit_code = <<>>
    /\ calls = <<>>
    /\ loopState = "none"
    /\ inputs = <<>>
    /\ choice = ""
    /\ title = Unset
    /\ secret = Unset
    /\ entries = <<>>
    /\ listing = <<>>
    /\ cmp = NoCmp

\* ---------------------------------------------------------------- sessions
\* A session opened by a with statement is released when its block is left;
\* kp2 of demo_minimalistic.py is opened by a plain assignment.
Scoped(s) == s # "kp2"

\* The sessions left open once an exception has left every with block.
Unwound(ss) == SelectSeq(ss, LAMBDA s : ~Scoped(s))

\* An exception nothing catches: the with blocks release their sessions, the
\* interpreter prints the traceback and the process ends with `status`.
Uncaught(status, what) ==
    /\ sessions' = Unwound(sessions)
    /\ released' = released + (Len(sessions) - Len(Unwound(sessions)))
    /\ opened' = opened
    /\ out' = Append(out, Msg(what))
    /\ exit_code' = <<status>>
    /\ loopState' = (IF loopState \in {"menu", "dispatching"} THEN "aborted" ELSE loopState)
    /\ pc' = "exited"
    /\ UNCHANGED <<frame, ret, calls, inputs, choice, title, secret, searchVars, cmp>>

\* KeyboardInterrupt raised at a blocking point outside main()'s try block.
UncaughtInterrupt ==
    \E status \in InterruptStatuses : Uncaught(status, "traceback_KeyboardInterrupt")

\* sys.exit(status), or the script running off its end (status 0), with no
\* with block left to unwind.
Exit(status, msgs) ==
    /\ out' = out \o msgs
    /\ exit_code' = <<status>>
    /\ pc' = "exited"

\* ------------------------------------------------- demo.py: the script body
\* The if __name__ == "__main__" block up to its three-way branch.
Start ==
    /\ pc = "start"
    /\ IF args = NoArgs
       THEN /\ pc' = "ask_interactive"
            /\ out' = Append(out, Msg("quick_start"))
            /\ UNCHANGED <<ret, cmp>>
       ELSE IF args.compare
       THEN /\ pc' = "cmp_path"
            /\ ret' = "script"
            /\ cmp' = NoCmp
            /\ out' = Append(out, Msg("comparison_banner"))
       ELSE /\ pc' = "main"
            /\ UNCHANGED <<ret, cmp, out>>
    /\ UNCHANGED <<frame, sessVars, exit_code, calls, loopVars, secret, searchVars>>

\* input("Would you like to start in interactive mode? (y/N): ")
AskInteractive ==
    /\ pc = "ask_interactive"
    /\ \/ /\ pc' = "ask_gui"
          /\ UNCHANGED <<frame, ret, sessVars, out, exit_code, calls, loopVars,
                         secret, searchVars, cmp>>
       \/ /\ Exit(0, <<Msg("run_with_help")>>)
          /\ UNCHANGED <<frame, ret, sessVars, calls, loopVars, secret, searchVars, cmp>>
       \/ UncaughtInterrupt

\* input("Use GUI for password input? (y/N): "), then interactive_mode(use_gui)
AskGui ==
    /\ pc = "ask_gui"
    /\ \/ /\ \E g \in BOOLEAN : with_gui' = g
          /\ pc' = "im_open"
          /\ out' = Append(out, Msg("interactive_banner"))
          /\ UNCHANGED <<entry, args, handler, target, caller, ret, sessVars,
                         exit_code, calls, loopVars, secret, searchVars, cmp>>
       \/ UncaughtInterrupt

\* ------------------------------------------------------- demo.py: main()
\* The dests of the parser's add_argument calls: the attributes args has.
NamespaceAttrsDeclared ==
    {"db", "gui", "entry", "search", "get_credentials", "get_full_entry",
     "autotype", "list_entries", "interactive", "verbose"}

NamespaceAttrs ==
    {"db", "gui", "entry", "search", "get_credentials", "get_full_entry",
     "autotype", "interactive", "verbose"}

B(b) == IF b THEN 1 ELSE 0

\* sum([args.get_credentials, args.get_full_entry, args.autotype,
\*      args.list_entries, bool(args.search)]); list_entries, were it an
\* attribute, would be a store_true flag that no command line here sets.
ActionCount(a) ==
    B(a.get_credentials) + B(a.get_full_entry) + B(a.autotype) + B(FALSE)
        + B(Truthy(a.search))

\* if not args.entry: print(...); sys.exit(1), else the handler
NeedsEntry(a, h) == IF ~Truthy(a.entry) THEN "exit_entry_required" ELSE h

\* A variant of MainOutcome that dispatches on the action flags without
\* validating the flag set first.
MainOutcomeUnvalidated(a) ==
    IF a.interactive THEN "interactive"
    ELSE IF Truthy(a.search) THEN "search"
    ELSE IF a.get_credentials THEN "get_credentials"
    ELSE IF a.get_full_entry THEN "get_full_entry"
    ELSE IF a.autotype THEN "autotype"
    ELSE "return"

\* What main() does with the parsed arguments, statement by statement.
MainOutcome(a) ==
    IF a.interactive THEN "interactive"
    ELSE IF ~Truthy(a.db) THEN "exit_db_required"
    ELSE IF "list_entries" \notin NamespaceAttrs THEN "AttributeError"
    ELSE IF ActionCount(a) = 0 THEN "exit_no_action"
    ELSE IF ActionCount(a) > 1 THEN "exit_one_action"
    ELSE IF Truthy(a.search) THEN "search"
    ELSE IF a.get_credentials THEN NeedsEntry(a, "get_credentials")
    ELSE IF a.get_full_entry THEN NeedsEntry(a, "get_full_entry")
    ELSE IF a.autotype THEN NeedsEntry(a, "autotype")
    ELSE "return"

Main ==
    /\ pc = "main"
    /\ LET o == MainOutcome(args) IN
       CASE o = "interactive" ->
              \* interactive_mode(with_gui=args.gui) reads no other flag:
              \* the rest of args is dropped
              /\ pc' = "im_open"
              /\ with_gui' = args.gui
              /\ args' = NoArgs
              /\ out' = Append(out, Msg("interactive_banner"))
              /\ UNCHANGED <<entry, handler, target, caller, ret, sessVars, exit_code,
                             calls, loopVars, secret, searchVars, cmp>>
         [] o \in {"exit_db_required", "exit_no_action", "exit_one_action",
                   "exit_entry_required"} ->
              /\ Exit(1, <<Msg(o)>>)
              /\ UNCHANGED <<frame, ret, sessVars, calls, loopVars, secret,
                             searchVars, cmp>>
         [] o = "AttributeError" ->
              Uncaught(1, "traceback_AttributeError")
         [] o = "return" ->
              /\ Exit(0, <<>>)
              /\ UNCHANGED <<frame, ret, sessVars, calls, loopVars, secret,
                             searchVars, cmp>>
         [] o \in Handlers ->
              /\ pc' = HandlerStart(o)
              /\ handler' = o
              /\ target' = (IF o = "search" THEN args.search ELSE args.entry)
              /\ with_gui' = args.gui
              /\ caller' = "main"
              /\ out' = Append(out, Msg("handler_banner"))
              /\ UNCHANGED <<entry, args, ret, sessVars, exit_code, calls, loopVars,
                             secret, searchVars, cmp>>

\* ------------------------------------------------- demo_minimalistic.py
\* with KeePassFunctions(db_file, with_gui = False) as kp1:
Min1Open ==
    /\ pc = "min1_open"
    /\ \/ /\ sessions' = Append(sessions, "kp1")
          /\ opened' = opened + 1
          /\ pc' = "min1_count"
          /\ UNCHANGED <<frame, ret, released, out, exit_code, calls, loopVars,
                         secret, searchVars, cmp>>
       \/ /\ out' = Append(out, Msg("error_context_manager"))
          /\ pc' = "min2_open"
          /\ UNCHANGED <<frame, ret, sessVars, exit_code, calls, loopVars, secret,
                         searchVars, cmp>>
       \/ UncaughtInterrupt

\* print(f'Antal poster: {kp1.get_entry_count()}'), then the block is left
Min1Count ==
    /\ pc = "min1_count"
    /\ \/ /\ \E m \in {"entry_count", "error_context_manager"} :
                out' = Append(out, Msg(m))
          /\ sessions' = SubSeq(sessions, 1, Len(sessions) - 1)
          /\ released' = released + 1
          /\ pc' = "min2_open"
          /\ UNCHANGED <<frame, ret, opened, exit_code, calls, loopVars, secret,
                         searchVars, cmp>>
       \/ UncaughtInterrupt

\* kp2 = KeePassFunctions(db_file, with_gui = False)
Min2Open ==
    /\ pc = "min2_open"
    /\ \/ /\ sessions' = Append(sessions, "kp2")
          /\ opened' = opened + 1
          /\ pc' = "min2_count"
          /\ UNCHANGED <<frame, ret, released, out, exit_code, calls, loopVars,
                         secret, searchVars, cmp>>
       \/ /\ Exit(0, <<Msg("error_directly")>>)
          /\ UNCHANGED <<frame, ret, sessVars, calls, loopVars, secret, searchVars, cmp>>
       \/ UncaughtInterrupt

\* print(f'Antal poster: {kp2.get_entry_count()}'); the module ends here
Min2Count ==
    /\ pc = "min2_count"
    /\ \/ /\ \E m \in {"entry_count", "error_directly"} : Exit(0, <<Msg(m)>>)
          /\ UNCHANGED <<frame, ret, sessVars, calls, loopVars, secret, searchVars, cmp>>
       \/ UncaughtInterrupt

\* ------------------------------------------- demo.py: single-shot handlers
Call(op, t) == [op |-> op, title |-> t]

\* A variant of Pop that leaves the session open.
PopKeepsOpen(ss) == ss

\* The sessions once the innermost with block has released its own.
Pop(ss) == SubSeq(ss, 1, Len(ss) - 1)

\* The handler returns to its caller: main() then returns too and the script
\* ends with status 0; a direct caller just gets control back.
HandlerReturn(msgs) ==
    /\ out' = out \o msgs
    /\ IF caller = "main"
       THEN exit_code' = <<0>> /\ pc' = "exited"
       ELSE exit_code' = exit_code /\ pc' = "returned"

\* KeyboardInterrupt inside a handler: no handler catches it, its with block
\* releases the session, and main()'s except KeyboardInterrupt prints the
\* cancellation and calls sys.exit(0); a direct caller sees it propagate.
HandlerInterrupt ==
    /\ sessions' = Unwound(sessions)
    /\ released' = released + (Len(sessions) - Len(Unwound(sessions)))
    /\ opened' = opened
    /\ IF caller = "main"
       THEN /\ out' = Append(out, Msg("cancelled_by_user"))
            /\ exit_code' = <<0>>
            /\ pc' = "exited"
       ELSE /\ out' = out
            /\ exit_code' = exit_code
            /\ pc' = "raised"
    /\ UNCHANGED <<frame, ret, calls, loopVars, secret, searchVars, cmp>>

\* The message a handler's except clauses print for an exception of class exc.
HandlerError(h, exc) ==
    CASE h = "search" -> "error_searching"
      [] h = "autotype" -> IF exc = "ValueError" THEN "error" ELSE "error_autotype"
      [] h = "get_full_entry" ->
            IF exc = "ValueError" THEN "entry_not_found" ELSE "error_entry_details"
      [] h = "get_credentials" ->
            IF exc = "ValueError" THEN "entry_not_found" ELSE "error_credentials"

\* with KeePassFunctions(db_path, with_gui=with_gui) as kp: of handler h
WithOpen(h) ==
    /\ pc = "h_open"
    /\ handler = h
    /\ \/ /\ sessions' = Append(sessions, "handler")
          /\ opened' = opened + 1
          /\ pc' = "h_call"
          /\ UNCHANGED <<frame, ret, released, out, exit_code, calls, loopVars,
                         secret, searchVars, cmp>>
       \/ /\ \E exc \in Failures : HandlerReturn(<<Msg(HandlerError(h, exc))>>)
          /\ UNCHANGED <<frame, ret, sessVars, calls, loopVars, secret, searchVars, cmp>>
       \/ HandlerInterrupt

\* The body of handler h's with block raises exc: the block releases the
\* session and the handler's except clause prints.
BodyRaises(h) ==
    /\ \E exc \in Failures : HandlerReturn(<<Msg(HandlerError(h, exc))>>)
    /\ sessions' = Pop(sessions)
    /\ released' = released + 1
    /\ opened' = opened

GetCredentialsOpen == WithOpen("get_credentials")

\* username, password = kp.get_credentials(entry_title) and the two prints
GetCredentialsCall ==
    /\ pc = "h_call"
    /\ handler = "get_credentials"
    /\ \/ /\ calls' = Append(calls, Call("get_credentials", target))
          /\ \/ /\ \E password \in Passwords :
                      /\ secret' = password
                      /\ HandlerReturn(<<Msg("username"),
                                         MsgText("password", MaskPassword(password))>>)
                /\ sessions' = Pop(sessions)
                /\ released' = released + 1
                /\ opened' = opened
             \/ /\ BodyRaises("get_credentials")
                /\ secret' = secret
          /\ UNCHANGED <<frame, ret, loopVars, searchVars, cmp>>
       \/ HandlerInterrupt

GetFullEntryOpen == WithOpen("get_full_entry")

\* entry = kp.get_credentials(entry_title, return_entry=True) and the prints
\* of its fields; every field but the password is printed as it is.
GetFullEntryCall ==
    /\ pc = "h_call"
    /\ handler = "get_full_entry"
    /\ \/ /\ calls' = Append(calls, Call("get_credentials", target))
          /\ \/ /\ \E password \in Passwords :
                      /\ secret' = password
                      /\ HandlerReturn(<<Msg("entry_details"),
                                         MsgText("password", MaskPassword(password)),
                                         Msg("entry_fields")>>)
                /\ sessions' = Pop(sessions)
                /\ released' = released + 1
                /\ opened' = opened
             \/ /\ BodyRaises("get_full_entry")
                /\ secret' = secret
          /\ UNCHANGED <<frame, ret, loopVars, searchVars, cmp>>
       \/ HandlerInterrupt

\* for i in range(5, 0, -1): print(...); time.sleep(1)
AutotypeCountdown ==
    /\ pc = "at_countdown"
    /\ \/ /\ pc' = "h_open"
          /\ out' = Append(out, Msg("countdown"))
          /\ UNCHANGED <<frame, ret, sessVars, exit_code, calls, loopVars, secret,
                         searchVars, cmp>>
       \/ HandlerInterrupt

AutotypeOpen == WithOpen("autotype")

\* kp.use_KeePass_sequence(entry_title)
AutotypeCall ==
    /\ pc = "h_call"
    /\ handler = "autotype"
    /\ \/ /\ calls' = Append(calls, Call("use_KeePass_sequence", target))
          /\ \/ /\ HandlerReturn(<<Msg("autotype_completed")>>)
                /\ sessions' = Pop(sessions)
                /\ released' = released + 1
                /\ opened' = opened
             \/ BodyRaises("autotype")
          /\ UNCHANGED <<frame, ret, loopVars, secret, searchVars, cmp>>
       \/ HandlerInterrupt

SearchOpen == WithOpen("search")

\* What search_entries_demo prints for the collaborator's list.
SearchReport(found) ==
    LET unique_entries == UniqueEntries(found)
    IN  IF unique_entries = <<>>
        THEN [msg |-> "no_entries_found", listing |-> <<>>]
        ELSE [msg |-> "found_matching",
              listing |-> <<[count |-> Len(unique_entries), rows |-> unique_entries]>>]

\* entries = kp.search_entries(title=search_term, max_results=10), the
\* de-duplication and the numbered list
SearchCall ==
    /\ pc = "h_call"
    /\ handler = "search"
    /\ \/ /\ calls' = Append(calls, Call("search_entries", target))
          /\ \/ /\ \E found \in ResultLists :
                      /\ entries' = <<found>>
                      /\ listing' = SearchReport(found).listing
                      /\ HandlerReturn(<<Msg(SearchReport(found).msg)>>)
                /\ sessions' = Pop(sessions)
                /\ released' = released + 1
                /\ opened' = opened
             \/ /\ BodyRaises("search")
                /\ UNCHANGED searchVars
          /\ UNCHANGED <<frame, ret, loopVars, secret, cmp>>
       \/ HandlerInterrupt

\* ------------------------------------------- demo.py: interactive_mode()
\* The loop goes back to its menu.
BackToMenu(msgs) ==
    /\ out' = out \o msgs
    /\ pc' = "im_menu"
    /\ loopState' = "menu"
    /\ exit_code' = exit_code

\* An exception leaves the while loop and the with block, which releases the
\* loop's session; except Exception (line 156) prints it, interactive_mode
\* returns and the script ends with status 0.
LoopAbort ==
    /\ sessions' = Pop(sessions)
    /\ released' = released + 1
    /\ opened' = opened
    /\ loopState' = "aborted"
    /\ Exit(0, <<Msg("error_in_interactive_mode")>>)

\* A variant of CaughtLocally in which every menu action has the two except
\* clauses that choice '4' has.
CaughtLocallyAlways(c, exc) == c \in {"1", "2", "3", "4"}

\* Whether menu action c has an except clause of its own for an exception of
\* class exc: none around entry_exists, except ValueError around the two
\* lookups, except ValueError and except Exception around the autotype call.
CaughtLocally(c, exc) ==
    CASE c = "1" -> FALSE
      [] c \in {"2", "3"} -> exc = "ValueError"
      [] c = "4" -> TRUE

\* The collaborator call of menu action c raises exc.
Raised(c, exc) ==
    IF CaughtLocally(c, exc)
    THEN /\ BackToMenu(<<Msg(IF c = "4" /\ exc # "ValueError"
                             THEN "error_autotype" ELSE "error")>>)
         /\ UNCHANGED sessVars
    ELSE LoopAbort

\* with KeePassFunctions(db_path, with_gui=with_gui) as kp:
ImOpen ==
    /\ pc = "im_open"
    /\ \/ /\ sessions' = Append(sessions, "loop")
          /\ opened' = opened + 1
          /\ loopState' = "menu"
          /\ pc' = "im_menu"
          /\ UNCHANGED <<frame, ret, released, out, exit_code, calls, inputs, choice,
                         title, secret, searchVars, cmp>>
       \/ /\ Exit(0, <<Msg("error_in_interactive_mode")>>)
          /\ UNCHANGED <<frame, ret, sessVars, calls, loopVars, secret, searchVars, cmp>>
       \/ UncaughtInterrupt

\* The menu, choice = input("\nEnter your choice (1-6): ").strip() and the
\* if / elif chain on it.
ImMenu ==
    /\ pc = "im_menu"
    /\ \/ \E c \in MenuInputs :
            /\ c # "6" => Len(inputs) < MaxChoices
            /\ inputs' = Append(inputs, c)
            /\ choice' = c
            /\ secret' = Unset
            /\ CASE c \in {"1", "2", "3", "4"} ->
                      /\ pc' = "im_prompt"
                      /\ loopState' = "dispatching"
                      /\ out' = Append(out, Msg("menu"))
                      /\ UNCHANGED <<sessVars, exit_code, ret, cmp>>
                 [] c = "5" ->
                      /\ pc' = "cmp_path"
                      /\ ret' = "loop"
                      /\ cmp' = NoCmp
                      /\ loopState' = "dispatching"
                      /\ out' = out \o <<Msg("menu"), Msg("comparison_banner")>>
                      /\ UNCHANGED <<sessVars, exit_code>>
                 [] c = "6" ->
                      /\ sessions' = Pop(sessions)
                      /\ released' = released + 1
                      /\ opened' = opened
                      /\ loopState' = "done"
                      /\ Exit(0, <<Msg("menu"), Msg("exiting_interactive_mode")>>)
                      /\ UNCHANGED <<ret, cmp>>
                 [] OTHER ->
                      /\ BackToMenu(<<Msg("menu"), Msg("invalid_choice")>>)
                      /\ UNCHANGED <<sessVars, ret, cmp>>
            /\ UNCHANGED <<frame, calls, title, searchVars>>
       \/ UncaughtInterrupt

\* search_term / entry_title = input(...).strip() and if search_term: /
\* if entry_title:
ImPrompt ==
    /\ pc = "im_prompt"
    /\ \/ \E raw \in RawInputs :
            /\ title' = Strip(raw)
            /\ IF Strip(raw) = <<>>
               THEN BackToMenu(<<>>)
               ELSE /\ pc' = (IF choice = "4" THEN "im_ready" ELSE "im_call")
                    /\ UNCHANGED <<out, loopState, exit_code>>
            /\ UNCHANGED <<frame, ret, sessVars, calls, inputs, choice, secret,
                           searchVars, cmp>>
       \/ UncaughtInterrupt

\* print("Make sure the target window is active!");
\* input("Press Enter when ready...")
ImReady ==
    /\ pc = "im_ready"
    /\ \/ /\ pc' = "im_call"
          /\ out' = Append(out, Msg("make_sure_target_active"))
          /\ UNCHANGED <<frame, ret, sessVars, exit_code, calls, loopVars, secret,
                         searchVars, cmp>>
       \/ UncaughtInterrupt

\* choice '1': entries = kp.entry_exists(search_term), outside any try of
\* its own
ImSearch ==
    /\ pc = "im_call"
    /\ choice = "1"
    /\ \/ /\ calls' = Append(calls, Call("entry_exists", title))
          /\ \/ /\ \E m \in {"found_as_title", "no_entries_found"} :
                      BackToMenu(<<Msg(m)>>)
                /\ UNCHANGED sessVars
             \/ \E exc \in Failures : Raised("1", exc)
          /\ UNCHANGED <<frame, ret, inputs, choice, title, secret, searchVars, cmp>>
       \/ UncaughtInterrupt

\* choice '2': username, password = kp.get_credentials(entry_title) under
\* try / except ValueError
ImGetCredentials ==
    /\ pc = "im_call"
    /\ choice = "2"
    /\ \/ /\ calls' = Append(calls, Call("get_credentials", title))
          /\ \/ /\ \E password \in Passwords :
                      /\ secret' = password
                      /\ BackToMenu(<<Msg("username"),
                                      MsgText("password", MaskPassword(password))>>)
                /\ UNCHANGED sessVars
             \/ /\ \E exc \in Failures : Raised("2", exc)
                /\ secret' = secret
          /\ UNCHANGED <<frame, ret, inputs, choice, title, searchVars, cmp>>
       \/ UncaughtInterrupt

\* choice '3': entry = kp.get_credentials(entry_title, return_entry=True)
\* under try / except ValueError
ImGetFullEntry ==
    /\ pc = "im_call"
    /\ choice = "3"
    /\ \/ /\ calls' = Append(calls, Call("get_credentials", title))
          /\ \/ /\ \E password \in Passwords :
                      /\ secret' = password
                      /\ BackToMenu(<<Msg("entry_details"),
                                      MsgText("password", MaskPassword(password)),
                                      Msg("entry_fields")>>)
                /\ UNCHANGED sessVars
             \/ /\ \E exc \in Failures : Raised("3", exc)
                /\ secret' = secret
          /\ UNCHANGED <<frame, ret, inputs, choice, title, searchVars, cmp>>
       \/ UncaughtInterrupt

\* choice '4': kp.use_KeePass_sequence(entry_title) under try /
\* except ValueError / except Exception
ImAutotype ==
    /\ pc = "im_call"
    /\ choice = "4"
    /\ \/ /\ calls' = Append(calls, Call("use_KeePass_sequence", title))
          /\ \/ /\ BackToMenu(<<Msg("autotype_executed")>>)
                /\ UNCHANGED sessVars
             \/ \E exc \in Failures : Raised("4", exc)
          /\ UNCHANGED <<frame, ret, inputs, choice, title, secret, searchVars, cmp>>
       \/ UncaughtInterrupt

\* ---------------------------------------- demo.py: gui_comparison_demo()
\* gui_comparison_demo returns: to the menu, or to the script's sys.exit(0).
CmpReturn(msgs) ==
    IF ret = "loop"
    THEN BackToMenu(msgs)
    ELSE /\ Exit(0, msgs)
         /\ loopState' = loopState

\* db_path = input("Enter path ... for comparison: ").strip();
\* if not db_path: ... return
CmpPath ==
    /\ pc = "cmp_path"
    /\ \/ /\ \E raw \in RawInputs :
                IF Strip(raw) = <<>>
                THEN CmpReturn(<<Msg("no_path_skipping")>>)
                ELSE /\ pc' = "cmp_console_open"
                     /\ out' = Append(out, Msg("testing_console"))
                     /\ UNCHANGED <<loopState, exit_code>>
          /\ UNCHANGED <<frame, ret, sessVars, calls, inputs, choice, title, secret,
                         searchVars, cmp>>
       \/ UncaughtInterrupt

\* with KeePassFunctions(db_path, with_gui=False) as kp: and, when it raises,
\* except Exception: print("Console input failed"); return
CmpConsoleOpen ==
    /\ pc = "cmp_console_open"
    /\ \/ /\ sessions' = Append(sessions, "console")
          /\ opened' = opened + 1
          /\ cmp' = [cmp EXCEPT !.console_opened = TRUE]
          /\ pc' = "cmp_console_count"
          /\ UNCHANGED <<frame, ret, released, out, exit_code, calls, loopVars,
                         secret, searchVars>>
       \/ /\ cmp' = [cmp EXCEPT !.console_failed = TRUE]
          /\ CmpReturn(<<Msg("console_input_failed")>>)
          /\ UNCHANGED <<frame, ret, sessVars, calls, inputs, choice, title, secret,
                         searchVars>>
       \/ UncaughtInterrupt

\* def log(level, msg, *args, **kwargs) of the logging module
LogParams == <<"level", "msg">>

\* logging.log(f"with KeePassFunctions(...) ...") passes one positional
\* argument
LogCallArgs == <<"f-string">>

\* A call with fewer positional arguments than required parameters raises
\* TypeError.
CallRaisesTypeError(params, callArgs) == Len(callArgs) < Len(params)

\* The graphical pass (lines 359-369), run as one step: open with
\* with_gui=True, count, print, log, release; except Exception prints
\* "GUI input failed"; then "Comparison complete".
GuiPass ==
    \E r \in {"open_fails", "count_fails", "counted"} :
        /\ cmp' = [cmp EXCEPT !.console_counted = TRUE, !.console_ok = TRUE,
                              !.gui_attempted = TRUE,
                              !.gui_failed = (r # "counted"
                                              \/ CallRaisesTypeError(LogParams, LogCallArgs))]
        /\ opened' = opened + (IF r = "open_fails" THEN 0 ELSE 1)
        /\ released' = released + 1 + (IF r = "open_fails" THEN 0 ELSE 1)
        /\ sessions' = Pop(sessions)
        /\ CmpReturn(<<Msg("console_success"), Msg("testing_gui")>>
                     \o (IF r = "counted" THEN <<Msg("gui_success")>> ELSE <<>>)
                     \o (IF r # "counted" \/ CallRaisesTypeError(LogParams, LogCallArgs)
                         THEN <<Msg("gui_input_failed")>> ELSE <<>>)
                     \o <<Msg("comparison_complete")>>)

\* entries_count = kp.get_entry_count(); print(success); logging.log(...);
\* the block releases the session; except Exception: print("Console input
\* failed"); return; otherwise on to the graphical pass.
CmpConsoleCount ==
    /\ pc = "cmp_console_count"
    /\ \/ /\ \/ /\ IF CallRaisesTypeError(LogParams, LogCallArgs)
                   THEN /\ cmp' = [cmp EXCEPT !.console_counted = TRUE,
                                              !.console_ok = TRUE,
                                              !.console_failed = TRUE]
                        /\ sessions' = Pop(sessions)
                        /\ released' = released + 1
                        /\ opened' = opened
                        /\ CmpReturn(<<Msg("console_success"),
                                       Msg("console_input_failed")>>)
                   ELSE GuiPass
             \/ /\ cmp' = [cmp EXCEPT !.console_failed = TRUE]
                /\ sessions' = Pop(sessions)
                /\ released' = released + 1
                /\ opened' = opened
                /\ CmpReturn(<<Msg("console_input_failed")>>)
          /\ UNCHANGED <<frame, ret, calls, inputs, choice, title, secret, searchVars>>
       \/ UncaughtInterrupt

\* ------------------------------------------------------------ the program
Next ==
    \/ Start
    \/ AskInteractive
    \/ AskGui
    \/ Main
    \/ Min1Open
    \/ Min1Count
    \/ Min2Open
    \/ Min2Count
    \/ GetCredentialsOpen
    \/ GetCredentialsCall
    \/ GetFullEntryOpen
    \/ GetFullEntryCall
    \/ AutotypeCountdown
    \/ AutotypeOpen
    \/ AutotypeCall
    \/ SearchOpen
    \/ SearchCall
    \/ ImOpen
    \/ ImMenu
    \/ ImPrompt
    \/ ImReady
    \/ ImSearch
    \/ ImGetCredentials
    \/ ImGetFullEntry
    \/ ImAutotype
    \/ CmpPath
    \/ CmpConsoleOpen
    \/ CmpConsoleCount

Spec == Init /\ [][Next]_vars

\* ----------------------------------------------------------------- claims
Last(q) == q[Len(q)]

CountTag(q, tag) == Len(SelectSeq(q, LAMBDA m : m.tag = tag))

\* main() runs, and not in interactive mode (interactive_mode drops args).
InMain == entry = "demo" /\ args # NoArgs /\ ~args.compare /\ ~args.interactive

\* The action flags given on the command line.
FlagsGiven(a) ==
    B(a.get_credentials) + B(a.get_full_entry) + B(a.autotype) + B(a.search # NoneV)

\* An invalid flag set: no --db, no action, several actions, or a
\* non-search action without --entry.
InvalidFlags(a) ==
    \/ a.db = NoneV
    \/ FlagsGiven(a) = 0
    \/ FlagsGiven(a) > 1
    \/ (a.get_credentials \/ a.get_full_entry \/ a.autotype) /\ a.entry = NoneV

\* C1: a non-interactive run of main() on an invalid flag set opens no
\* session, makes no collaborator call, and once main() has acted the process
\* has exited with status 1.
C1_InvalidFlagsExitOne ==
    (InMain /\ InvalidFlags(args)) =>
        /\ opened = 0
        /\ calls = <<>>
        /\ pc \in {"start", "main", "exited"}
        /\ pc = "exited" => exit_code = <<1>>

\* C1's case: two action flags with --db and --entry given, and the process
\* has exited.
C1_Witness ==
    /\ InMain
    /\ pc = "exited"
    /\ Truthy(args.db)
    /\ args.get_credentials
    /\ args.autotype
    /\ Truthy(args.entry)

Ended == pc \in {"exited", "returned", "raised"}

\* C2: when either demo program has ended, every session it opened has been
\* released: as many releases as opens, and none left open.
C2_EverySessionReleased ==
    (entry \in {"demo", "minimal"} /\ Ended) => (released = opened /\ sessions = <<>>)

\* C3 as stated: at most one database session is open in every reachable
\* state.
C3_AtMostOneSessionOpen == Len(sessions) <= 1

CompareSessions == SelectSeq(sessions, LAMBDA x : x \in {"console", "gui"})

\* C3 as amended: at most one session is open, except while the comparison
\* runs from menu choice 5, where the loop's session and the comparison's
\* console session are open together; never more than two, the comparison
\* never holds two sessions of its own, and run by --compare it holds one.
C3_AtMostOneExceptNestedCompare ==
    /\ Len(sessions) <= 2
    /\ Len(CompareSessions) <= 1
    /\ Len(sessions) = 2 =>
          /\ sessions = <<"loop", "console">>
          /\ ret = "loop"
          /\ choice = "5"
          /\ pc = "cmp_console_count"
    /\ opened = released + Len(sessions)

\* C3's case: the comparison, entered from the menu, holds its console
\* session while the loop's session is open.
C3_Witness ==
    /\ sessions = <<"loop", "console">>
    /\ pc = "cmp_console_count"
    /\ loopState = "dispatching"

\* The step is the process dying on an uncaught KeyboardInterrupt.
InterruptStep ==
    /\ exit_code' # exit_code
    /\ out' # <<>>
    /\ Last(out').tag = "traceback_KeyboardInterrupt"

\* C4: a step of a menu action that is not the user's interrupt, a failing
\* collaborator call included, leaves the loop running with its session open:
\* back in the menu, or further on in the same action.
C4_FailureKeepsLoopRunning ==
    [][(loopState = "dispatching"
          /\ pc \in {"im_call", "cmp_console_open", "cmp_console_count"}
          /\ ~InterruptStep)
       => (/\ loopState' \in {"menu", "dispatching"}
           /\ pc' # "exited"
           /\ sessions' # <<>>
           /\ Head(sessions') = "loop")]_vars

\* C5: a process of demo.py that a KeyboardInterrupt ended has printed the
\* cancellation message last, has exit status 0 and holds no session.
C5_InterruptExitsZero ==
    (/\ entry = "demo"
     /\ pc = "exited"
     /\ out # <<>>
     /\ Last(out).tag \in {"traceback_KeyboardInterrupt", "cancelled_by_user"})
    => (/\ Last(out).tag = "cancelled_by_user"
        /\ exit_code = <<0>>
        /\ sessions = <<>>)

\* The comparison has returned (its last print is one of its final ones).
CompareReturned ==
    /\ out # <<>>
    /\ Last(out).tag \in {"no_path_skipping", "console_input_failed",
                          "comparison_complete"}

ConsolePassSucceeded == cmp.console_opened /\ cmp.console_counted

\* C6: when the comparison has returned, the graphical open was attempted
\* exactly if the console pass (open and entry count) succeeded; a console
\* pass that succeeded was reported as a success and not as a failure.
C6_GuiAttemptedIffConsoleSucceeded ==
    CompareReturned =>
        /\ cmp.gui_attempted <=> ConsolePassSucceeded
        /\ ConsolePassSucceeded => (cmp.console_ok /\ ~cmp.console_failed)
        /\ cmp.console_failed => ~cmp.gui_attempted

\* C7: the loop's state machine.  From dispatching the loop goes back to the
\* menu; an input outside 1-6 prints the invalid-choice message once and
\* stays in the menu; the loop reaches done only from the menu on "6", with
\* its session released; and nothing but "6" (or the user's interrupt) ends
\* the loop.
C7_LoopStateMachine ==
    [][/\ (loopState = "dispatching" /\ loopState' # "dispatching" /\ ~InterruptStep)
            => loopState' = "menu"
       /\ (loopState = "menu" /\ inputs' # inputs
             /\ Last(inputs') \notin {"1", "2", "3", "4", "5", "6"})
            => /\ loopState' = "menu"
               /\ CountTag(out', "invalid_choice") = CountTag(out, "invalid_choice") + 1
       /\ (loopState = "menu" /\ inputs' # inputs
             /\ Last(inputs') \in {"1", "2", "3", "4", "5"})
            => loopState' = "dispatching"
       /\ (loopState' = "done" /\ loopState # "done")
            => /\ loopState = "menu"
               /\ Last(inputs') = "6"
               /\ sessions' = <<>>
               /\ released' = opened'
       /\ (loopState \in {"menu", "dispatching"}
             /\ loopState' \notin {"menu", "dispatching"} /\ ~InterruptStep)
            => loopState' = "done"]_vars

\* The text of the last password line printed.
LastPasswordLine ==
    LET lines == SelectSeq(out, LAMBDA m : m.tag = "password")
    IN  Last(lines).text

OnlyStars(t) == \A i \in DOMAIN t : t[i] = "*"

\* C8: once a lookup has returned a password and the handler has printed,
\* the password line is as many asterisks as the password is long, or N/A
\* for an empty or absent password; it is the password itself only when the
\* password is nothing but asterisks; no other line carries any text.
C8_PasswordMasked ==
    secret # Unset =>
        /\ CountTag(out, "password") > 0
        /\ Truthy(secret) =>
              /\ Len(LastPasswordLine) = Len(secret)
              /\ Len(LastPasswordLine) > 0
              /\ OnlyStars(LastPasswordLine)
        /\ ~Truthy(secret) => LastPasswordLine = NA
        /\ (Truthy(secret) /\ ~OnlyStars(secret)) => LastPasswordLine # secret
        /\ \A i \in DOMAIN out : out[i].tag # "password" => out[i].text = <<>>

\* C8's case: menu choice 2 has printed the line for a two-character
\* password.
C8_Witness ==
    /\ secret = <<"p", "*">>
    /\ choice = "2"
    /\ pc = "im_menu"
    /\ LastPasswordLine = <<"*", "*">>

UuidsOf(es) == {es[i].uuid : i \in DOMAIN es}

FirstIndex(es, u) ==
    CHOOSE i \in DOMAIN es :
        es[i].uuid = u /\ \A j \in 1..(i - 1) : es[j].uuid # u

\* C9: once the search handler has the collaborator's list, what it printed
\* holds one row per distinct uuid, each row an entry of the list, in the
\* order of the uuids' first occurrences, with the count of distinct uuids;
\* for no uuid at all it printed the no-matches line and returned.
C9_SearchDeduplicated ==
    entries # <<>> =>
        IF UuidsOf(entries[1]) = {}
        THEN /\ listing = <<>>
             /\ Last(out).tag = "no_entries_found"
             /\ pc \in {"returned", "exited"}
        ELSE /\ listing # <<>>
             /\ Last(out).tag = "found_matching"
             /\ pc \in {"returned", "exited"}
             /\ listing[1].count = Cardinality(UuidsOf(entries[1]))
             /\ Len(listing[1].rows) = listing[1].count
             /\ UuidsOf(listing[1].rows) = UuidsOf(entries[1])
             /\ \A i \in DOMAIN listing[1].rows :
                   \E j \in DOMAIN entries[1] : listing[1].rows[i] = entries[1][j]
             /\ \A i, j \in DOMAIN listing[1].rows :
                   i < j => FirstIndex(entries[1], listing[1].rows[i].uuid)
                              < FirstIndex(entries[1], listing[1].rows[j].uuid)

\* C9's case: the first and the third entry share a uuid, the second has
\* another, and two rows were printed.
C9_Witness ==
    /\ entries # <<>>
    /\ Len(entries[1]) = 3
    /\ entries[1][1].uuid = entries[1][3].uuid
    /\ entries[1][1].title # entries[1][3].title
    /\ entries[1][2].uuid # entries[1][1].uuid
    /\ listing # <<>>
    /\ listing[1].count = 2

Blank(t) == t = NoneV \/ \A i \in DOMAIN t : t[i] \in Whitespace

====
